---- MODULE Spec2Model ----
(***************************************************************************)
(* Model of knives.py: main(opts) builds the argument vectors of a fixed   *)
(* chain of external programs, spawns them with subprocess.Popen wiring    *)
(* each stage's stdin to the previous stage's stdout pipe, copies the      *)
(* unpaired reads of sickle through a named pipe with cat, waits for the   *)
(* last stage and unlinks the named pipe.                                  *)
(*                                                                         *)
(* The state is the position of main, the option dictionary, the spawned   *)
(* child processes with their argument vectors and stream wiring, the      *)
(* file handles of the parent, the named pipe and the stderr log.          *)
(***************************************************************************)
EXTENDS Integers, Sequences, FiniteSets, TLC

(* ------------------------------------------------------------------ *)
(* Bounds                                                              *)
(* ------------------------------------------------------------------ *)

\* Number of child processes that write to their stderr within one run.
MaxStderr == 1

(* ------------------------------------------------------------------ *)
(* Globals of knives.py                                                *)
(* ------------------------------------------------------------------ *)

\* Executable paths stored by find_progs, and the NOW time stamp.
SICKLE == "sickle"
SCYTHE == "scythe"
SEQQS == "seqqs"
PAIRS == "pairs"
NOW == "NOW"

\* The *_proc variables of main, in the order main spawns them.
Stages == {"interleave", "seqqs_il", "scythe", "seqqs_na", "sickle",
           "cat", "seqqs_qt", "deinterleave"}

\* Values docopt can hand to main for the options the model varies.
QualValues == {"20"}
TypeValues == {"sanger", "illumina"}
SkipValues == SUBSET {"scythe", "sickle", "seqqs"}

\* The docopt dictionaries main is run on.
OptSet ==
    { ("-q" :> q) @@ ("-t" :> t) @@ ("-l" :> "40") @@ ("-s" :> s)
        @@ ("-S" :> bigS) @@ ("-n" :> n) @@ ("-a" :> "adaptors.fa")
        @@ ("-i" :> "r1.fq") @@ ("-I" :> "r2.fq") @@ ("-o" :> "o1.fq")
        @@ ("-O" :> "o2.fq") @@ ("-u" :> "unpaired.fq.gz")
        @@ ("-p" :> "pfx") @@ ("-r" :> "0.1") :
        q \in QualValues, t \in TypeValues, s \in SkipValues,
        bigS \in BOOLEAN, n \in BOOLEAN }

unpaired_tmpfn == "unpaired_" \o NOW

(* ------------------------------------------------------------------ *)
(* Argument vectors built by main                                      *)
(* ------------------------------------------------------------------ *)

interleave_cli(o) == <<PAIRS, "join", "-t", o["-i"], o["-I"]>>

seqqs_il_cli(o) ==
    <<SEQQS, "-i", "-e", "-q", o["-q"], "-p",
      o["-p"] \o "_initial_" \o NOW, "-">>

scythe_cli(o) == <<SCYTHE, "-p", o["-r"], "-a", o["-a"], "-M", "0", "-">>

seqqs_na_cli(o) ==
    <<SEQQS, "-i", "-e", "-q", o["-q"], "-p",
      o["-p"] \o "_noadapt_" \o NOW, "-">>

sickle_cli(o) ==
    <<SICKLE, "pe", "-t", o["-q"], "-c", "/dev/stdin", "-m", "/dev/stdout",
      "-s", unpaired_tmpfn, "-q", o["-q"], "-l", o["-l"]>>
    \o (IF o["-n"] THEN <<"-n">> ELSE <<>>)

cat_cli(o) == <<"cat", unpaired_tmpfn>>

seqqs_qt_cli(o) ==
    <<SEQQS, "-i", "-e", "-q", o["-q"], "-p",
      o["-p"] \o "_qualtrim_" \o NOW, "-">>

deinterleave_cli(o) ==
    <<PAIRS, "split", "-1", o["-o"], "-2", o["-O"], "-u", o["-u"], "-">>

\* The argument vector main passes to Popen for stage s.
Cli(s, o) ==
    CASE s = "interleave" -> interleave_cli(o)
      [] s = "seqqs_il" -> seqqs_il_cli(o)
      [] s = "scythe" -> scythe_cli(o)
      [] s = "seqqs_na" -> seqqs_na_cli(o)
      [] s = "sickle" -> sickle_cli(o)
      [] s = "cat" -> cat_cli(o)
      [] s = "seqqs_qt" -> seqqs_qt_cli(o)
      [] s = "deinterleave" -> deinterleave_cli(o)

(* ------------------------------------------------------------------ *)
(* The statements of main that act on processes, handles and files     *)
(* ------------------------------------------------------------------ *)

\* A statement is a record: op is "gzip_open", "mkfifo", "Popen", "close",
\* "communicate" or "unlink".  For Popen, stdin is the stage whose stdout
\* pipe is passed as stdin (or "None") and stdout is "PIPE" (sp.PIPE) or
\* "unpaired_fh".  For close, stage is the X of X_proc.stdout.close().

setup_steps ==
    << [op |-> "gzip_open"],
       [op |-> "mkfifo"] >>

interleave_steps ==
    << [op |-> "Popen", stage |-> "interleave", stdin |-> "None",
        stdout |-> "PIPE"] >>

seqqs_il_steps ==
    << [op |-> "Popen", stage |-> "seqqs_il", stdin |-> "interleave",
        stdout |-> "PIPE"],
       [op |-> "close", stage |-> "interleave"] >>

scythe_steps ==
    << [op |-> "Popen", stage |-> "scythe", stdin |-> "seqqs_il",
        stdout |-> "PIPE"],
       [op |-> "close", stage |-> "seqqs_il"] >>

seqqs_na_steps ==
    << [op |-> "Popen", stage |-> "seqqs_na", stdin |-> "scythe",
        stdout |-> "PIPE"],
       [op |-> "close", stage |-> "scythe"] >>

sickle_steps ==
    << [op |-> "Popen", stage |-> "sickle", stdin |-> "seqqs_na",
        stdout |-> "PIPE"],
       [op |-> "close", stage |-> "seqqs_il"] >>

\* The same statements with the cat process left out.
cat_steps_missing == << >>

cat_steps ==
    << [op |-> "Popen", stage |-> "cat", stdin |-> "None",
        stdout |-> "unpaired_fh"] >>

\* The same statements reading from the pipe main left open two stages up.
seqqs_qt_steps_miswired ==
    << [op |-> "Popen", stage |-> "seqqs_qt", stdin |-> "seqqs_na",
        stdout |-> "PIPE"],
       [op |-> "close", stage |-> "sickle"] >>

seqqs_qt_steps ==
    << [op |-> "Popen", stage |-> "seqqs_qt", stdin |-> "sickle",
        stdout |-> "PIPE"],
       [op |-> "close", stage |-> "sickle"] >>

deinterleave_steps ==
    << [op |-> "Popen", stage |-> "deinterleave", stdin |-> "seqqs_qt",
        stdout |-> "PIPE"],
       [op |-> "close", stage |-> "sickle"] >>

final_steps ==
    << [op |-> "communicate", stage |-> "deinterleave"],
       [op |-> "unlink"] >>

\* main, from gzip.open to os.unlink.
MainSteps ==
    setup_steps \o interleave_steps \o seqqs_il_steps \o scythe_steps
        \o seqqs_na_steps \o sickle_steps \o cat_steps \o seqqs_qt_steps
        \o deinterleave_steps \o final_steps

VARIABLES
    opts,            \* the docopt dictionary main was called with
    pc,              \* index in MainSteps of the next statement of main
    status,          \* "running", "returned", "raised" or "exited"
    proc,            \* stage -> "none", "running" or "exited"
    argv,            \* stage -> argument vector it was spawned with
    stdin,           \* stage -> stage whose stdout pipe is its stdin
    spawned,         \* the stages in the order Popen created them
    parentFds,       \* stages whose stdout read end is open in the parent
    fifo,            \* does unpaired_tmpfn exist in the temp directory
    mkfifoCount,     \* number of named pipes created
    fifoEnd,         \* sickle / cat -> "closed", "opening" or "open"
    unpairedWriters, \* who holds the -u file open for writing
    stderr_tmp,      \* stages that wrote diagnostics to their stderr file
    stderr_log       \* stages whose diagnostics reached STDERR_LOG

vars == <<opts, pc, status, proc, argv, stdin, spawned, parentFds, fifo,
          mkfifoCount, fifoEnd, unpairedWriters, stderr_tmp, stderr_log>>

procVars == <<proc, argv, stdin, spawned>>
fifoVars == <<fifo, mkfifoCount, fifoEnd>>
logVars == <<stderr_tmp, stderr_log>>

\* The state in which main starts on the dictionary o.
InitWith(o) ==
    /\ opts = o
    /\ pc = 1
    /\ status = "running"
    /\ proc = [s \in Stages |-> "none"]
    /\ argv = [s \in Stages |-> <<>>]
    /\ stdin = [s \in Stages |-> "None"]
    /\ spawned = <<>>
    /\ parentFds = {}
    /\ fifo = FALSE
    /\ mkfifoCount = 0
    /\ fifoEnd = [s \in {"sickle", "cat"} |-> "closed"]
    /\ unpairedWriters = {}
    /\ stderr_tmp = {}
    /\ stderr_log = {}

\* main is called on any of the docopt dictionaries.
Init == \E o \in OptSet : InitWith(o)

\* main is called with the options -s, -t and -n left at their defaults.
DefaultOptSet ==
    {o \in OptSet : o["-s"] = {} /\ o["-t"] = "sanger" /\ ~o["-n"]}

InitDefaults == \E o \in DefaultOptSet : InitWith(o)

\* main is about to execute a statement of kind op.
At(op) ==
    /\ status = "running"
    /\ pc \in 1..Len(MainSteps)
    /\ MainSteps[pc].op = op

\* Control leaves the last statement of main.
Advance ==
    /\ pc' = pc + 1
    /\ status' = IF pc = Len(MainSteps) THEN "returned" ELSE "running"

(* ------------------------------------------------------------------ *)
(* Steps of main                                                       *)
(* ------------------------------------------------------------------ *)

\* unpaired_fh = gzip.open(opts['-u'], "w")
GzipOpen ==
    /\ At("gzip_open")
    /\ unpairedWriters' = unpairedWriters \cup {"parent"}
    /\ Advance
    /\ UNCHANGED <<opts, procVars, parentFds, fifoVars, logVars>>

\* os.mkfifo(unpaired_tmpfn)
Mkfifo ==
    /\ At("mkfifo")
    /\ ~fifo
    /\ fifo' = TRUE
    /\ mkfifoCount' = mkfifoCount + 1
    /\ Advance
    /\ UNCHANGED <<opts, procVars, parentFds, fifoEnd, unpairedWriters,
                   logVars>>

\* The stream a Popen call is handed as stdin is still open in the parent.
StdinUsable(step) == step.stdin = "None" \/ step.stdin \in parentFds

\* X_proc = sp.Popen(X_cli, stdin=..., stdout=..., stderr=X_stderr)
Popen ==
    /\ At("Popen")
    /\ LET step == MainSteps[pc]
           s == step.stage
       IN  /\ StdinUsable(step)
           /\ proc' = [proc EXCEPT ![s] = "running"]
           /\ argv' = [argv EXCEPT ![s] = Cli(s, opts)]
           /\ stdin' = [stdin EXCEPT ![s] = step.stdin]
           /\ spawned' = Append(spawned, s)
           /\ parentFds' = IF step.stdout = "PIPE"
                           THEN parentFds \cup {s} ELSE parentFds
           /\ unpairedWriters' = IF step.stdout = "unpaired_fh"
                                 THEN unpairedWriters \cup {s}
                                 ELSE unpairedWriters
    /\ Advance
    /\ UNCHANGED <<opts, fifoVars, logVars>>

\* A statement of main raises (the program cannot be spawned, the stream
\* passed as stdin is closed, the file or named pipe cannot be created);
\* main has no handler, so the exception leaves main.
Raise ==
    /\ \/ At("Popen")
       \/ At("gzip_open")
       \/ At("mkfifo")
    /\ status' = "raised"
    /\ UNCHANGED <<opts, pc, procVars, parentFds, fifoVars,
                   unpairedWriters, logVars>>

\* X_proc.stdout.close(); closing a closed file object does nothing.
CloseStdout ==
    /\ At("close")
    /\ parentFds' = parentFds \ {MainSteps[pc].stage}
    /\ Advance
    /\ UNCHANGED <<opts, procVars, fifoVars, unpairedWriters, logVars>>

\* print(deinterleave_proc.communicate()): reads the stdout pipe to its
\* end, closes it and waits for the process.
Communicate ==
    /\ At("communicate")
    /\ proc[MainSteps[pc].stage] = "exited"
    /\ parentFds' = parentFds \ {MainSteps[pc].stage}
    /\ Advance
    /\ UNCHANGED <<opts, procVars, fifoVars, unpairedWriters, logVars>>

\* os.unlink(unpaired_tmpfn)
Unlink ==
    /\ At("unlink")
    /\ fifo
    /\ fifo' = FALSE
    /\ Advance
    /\ UNCHANGED <<opts, procVars, parentFds, mkfifoCount, fifoEnd,
                   unpairedWriters, logVars>>

\* The interpreter exits after main returned or raised: every handle the
\* parent still holds is closed.
InterpreterExit ==
    /\ status \in {"returned", "raised"}
    /\ status' = "exited"
    /\ parentFds' = {}
    /\ unpairedWriters' = unpairedWriters \ {"parent"}
    /\ UNCHANGED <<opts, pc, procVars, fifoVars, logVars>>

(* ------------------------------------------------------------------ *)
(* Steps of the spawned processes                                      *)
(* ------------------------------------------------------------------ *)

\* The processes that hold the read end of the stdout pipe of stage s.
Readers(s) ==
    {r \in Stages : proc[r] = "running" /\ stdin[r] = s}
        \cup (IF s \in parentFds THEN {"parent"} ELSE {})

\* Stage s reads end-of-file on its stdin pipe: its only writer exited.
StdinEof(s) == stdin[s] # "None" /\ proc[stdin[s]] = "exited"

\* Nobody is left to read what stage s writes to its stdout pipe.
ReaderGone(s) == s # "cat" /\ Readers(s) = {}

\* The other end of the named pipe.
Peer(s) == IF s = "sickle" THEN "cat" ELSE "sickle"

\* Process s terminates: all its descriptors are closed.
Terminate(s) ==
    /\ proc' = [proc EXCEPT ![s] = "exited"]
    /\ fifoEnd' = IF s \in DOMAIN fifoEnd
                  THEN [fifoEnd EXCEPT ![s] = "closed"] ELSE fifoEnd
    /\ unpairedWriters' = unpairedWriters \ {s}
    /\ UNCHANGED <<opts, pc, status, argv, stdin, spawned, parentFds, fifo,
                   mkfifoCount, logVars>>

\* sickle and cat open the named pipe before they process anything, so
\* while the path exists neither completes its work without having it
\* open; a process inside open(2) stays there until the other end comes.
Blocked(s) ==
    /\ s \in DOMAIN fifoEnd
    /\ \/ fifoEnd[s] = "opening"
       \/ fifoEnd[s] = "closed" /\ fifo

\* The work of stage s is over: its input is exhausted or its output has
\* no reader.  interleave reads regular files; cat reads the named pipe
\* until its writer has closed it, and fails if the path is gone.
Done(s) ==
    CASE s = "interleave" -> TRUE
      [] s = "cat" ->
            \/ fifoEnd["cat"] = "open" /\ fifoEnd["sickle"] # "open"
            \/ fifoEnd["cat"] = "closed" /\ ~fifo
      [] OTHER -> StdinEof(s) \/ ReaderGone(s)

\* Stage s exits because its work is over.
Finish(s) ==
    /\ proc[s] = "running"
    /\ ~Blocked(s)
    /\ Done(s)
    /\ Terminate(s)

\* Stage s exits early (bad arguments, failure, signal).
ExitEarly(s) ==
    /\ proc[s] = "running"
    /\ Terminate(s)

\* sickle (-s unpaired_tmpfn) or cat opens the named pipe; open(2) returns
\* only once the other end is being opened too.
OpenFifo(s) ==
    /\ s \in DOMAIN fifoEnd
    /\ proc[s] = "running"
    /\ fifoEnd[s] = "closed"
    /\ fifo
    /\ fifoEnd' = IF fifoEnd[Peer(s)] \in {"opening", "open"}
                  THEN [t \in DOMAIN fifoEnd |-> "open"]
                  ELSE [fifoEnd EXCEPT ![s] = "opening"]
    /\ UNCHANGED <<opts, pc, status, procVars, parentFds, fifo, mkfifoCount,
                   unpairedWriters, logVars>>

\* pairs split opens the file named by its -u argument for writing.
OpenUnpaired ==
    /\ proc["deinterleave"] = "running"
    /\ "deinterleave" \notin unpairedWriters
    /\ unpairedWriters' = unpairedWriters \cup {"deinterleave"}
    /\ UNCHANGED <<opts, pc, status, procVars, parentFds, fifoVars, logVars>>

\* Stage s writes diagnostics to the temporary file it has as stderr.
WriteStderr(s) ==
    /\ proc[s] = "running"
    /\ s \notin stderr_tmp
    /\ Cardinality(stderr_tmp) < MaxStderr
    /\ stderr_tmp' = stderr_tmp \cup {s}
    /\ UNCHANGED <<opts, pc, status, procVars, parentFds, fifoVars,
                   unpairedWriters, stderr_log>>

MainNext ==
    \/ GzipOpen
    \/ Mkfifo
    \/ Popen
    \/ Raise
    \/ CloseStdout
    \/ Communicate
    \/ Unlink
    \/ InterpreterExit

ProcNext ==
    \/ \E s \in Stages : Finish(s)
    \/ \E s \in Stages : ExitEarly(s)
    \/ \E s \in Stages : OpenFifo(s)
    \/ OpenUnpaired
    \/ \E s \in Stages : WriteStderr(s)

Next == MainNext \/ ProcNext

\* Runs with the default options, with every step of every process.
Spec == InitDefaults /\ [][Next]_vars

\* The processes open the named pipe and only ever exit because their
\* work is over.
ArgsNext ==
    \/ MainNext
    \/ \E s \in Stages : OpenFifo(s)
    \/ \E s \in Stages : Finish(s)

\* Runs on every option dictionary, with processes that run to completion.
SpecArgs == Init /\ [][ArgsNext]_vars

\* The parent is scheduled, and so is every process that is not blocked:
\* it opens the named pipe it was given and exits once its work is over.
Fairness ==
    /\ WF_vars(MainNext)
    /\ \A s \in Stages : WF_vars(Finish(s))
    /\ \A s \in {"sickle", "cat"} : WF_vars(OpenFifo(s))

FairSpec == InitDefaults /\ [][Next]_vars /\ Fairness

(* ------------------------------------------------------------------ *)
(* Properties                                                          *)
(* ------------------------------------------------------------------ *)

\* The stages whose stdout pipe feeds another stage.
InterStage == Stages \ {"cat", "deinterleave"}

\* The chain of stages from pairs join to pairs split.
Chain == <<"interleave", "seqqs_il", "scythe", "seqqs_na", "sickle",
           "seqqs_qt", "deinterleave">>

\* The stage that follows stage s in the chain.
Consumer(s) == Chain[(CHOOSE i \in 1..(Len(Chain) - 1) : Chain[i] = s) + 1]

\* The argument that follows the first occurrence of flag in av.
ArgAfter(av, flag) ==
    av[(CHOOSE i \in 1..Len(av) :
            av[i] = flag /\ \A j \in 1..(i - 1) : av[j] # flag) + 1]

\* C1: when main calls communicate() on the last stage, the parent holds
\* no open read end of the stdout pipe of any inter-stage producer, and
\* the only reader of each such pipe is the next stage of the chain.
C1_StreamClosure ==
    At("communicate") =>
        \A s \in InterStage :
            /\ s \notin parentFds
            /\ Readers(s) \subseteq {Consumer(s)}

\* C2: whenever main has finished (returned or raised) after os.mkfifo
\* succeeded, the named pipe no longer exists.
C2_FifoUnlinked ==
    (status \in {"returned", "raised"} /\ mkfifoCount > 0) => ~fifo

\* C3: no process is spawned of a program named in -s SKIP, and the
\* stages that remain are chained, each reading the stdout of the nearest
\* stage before it that was not skipped.
C3_Skip ==
    /\ \A s \in Stages : proc[s] # "none" => argv[s][1] \notin opts["-s"]
    /\ status = "returned" =>
          /\ proc["interleave"] # "none" /\ proc["deinterleave"] # "none"
          /\ \A i \in 2..Len(Chain) :
                proc[Chain[i]] # "none" =>
                    \E j \in 1..(i - 1) :
                        /\ stdin[Chain[i]] = Chain[j]
                        /\ \A k \in (j + 1)..(i - 1) : proc[Chain[k]] = "none"

\* C4: at the step in which main returns, without -S the diagnostics
\* every process has written to its stderr are in the stderr log; with -S
\* nothing is ever logged.
C4_DiagnosticCapture ==
    /\ [][(status = "running" /\ status' = "returned" /\ ~opts["-S"])
            => stderr_tmp' \subseteq stderr_log']_vars
    /\ [](opts["-S"] => stderr_log = {})

\* C5: the value after -q of every seqqs stage and after -t of sickle is
\* the -t TYPE option, and the -q QUAL option appears only as the value
\* after sickle's -q.
C5_QualityEncoding ==
    \A s \in Stages :
        proc[s] # "none" =>
            /\ argv[s][1] = SEQQS => ArgAfter(argv[s], "-q") = opts["-t"]
            /\ argv[s][1] = SICKLE =>
                  /\ ArgAfter(argv[s], "-t") = opts["-t"]
                  /\ ArgAfter(argv[s], "-q") = opts["-q"]
                  /\ \A i \in 1..Len(argv[s]) :
                        argv[s][i] = opts["-q"] =>
                            i > 1 /\ argv[s][i - 1] = "-q"
            /\ argv[s][1] \notin {SEQQS, SICKLE} =>
                  \A i \in 1..Len(argv[s]) : argv[s][i] # opts["-q"]

\* C6 as stated: a run of main that returns has spawned exactly five
\* processes and created one named pipe.
C6_FiveProcesses ==
    status = "returned" => Len(spawned) = 5 /\ mkfifoCount = 1

\* C6 as amended: a run of main that returns has spawned exactly eight
\* processes, the seven stages of the chain in order with cat spawned
\* between sickle and seqqs qualtrim, and created one named pipe.
C6_EightProcesses ==
    status = "returned" =>
        /\ spawned = <<"interleave", "seqqs_il", "scythe", "seqqs_na",
                       "sickle", "cat", "seqqs_qt", "deinterleave">>
        /\ mkfifoCount = 1

C6_Witness == status = "returned" /\ Len(spawned) = 8 /\ ~fifo

\* C7: the stages of the chain are spawned in chain order, every stage but
\* the first has as stdin the stdout pipe of the stage before it in the
\* chain, and no stdout pipe is the stdin of two processes.
C7_ChainWiring ==
    /\ LET inChain(s) == s # "cat"
           sp == SelectSeq(spawned, inChain)
       IN  sp = SubSeq(Chain, 1, Len(sp))
    /\ \A i \in 2..Len(Chain) :
          proc[Chain[i]] # "none" => stdin[Chain[i]] = Chain[i - 1]
    /\ \A a, b \in Stages :
          (a # b /\ proc[a] # "none" /\ proc[b] # "none"
                /\ stdin[a] # "None") => stdin[a] # stdin[b]

C7_Witness ==
    /\ \A i \in 1..Len(Chain) : proc[Chain[i]] # "none"
    /\ stdin["deinterleave"] = "seqqs_qt"

\* C8: the file named by -u never has more than one writer.
C8_SingleWriter == Cardinality(unpairedWriters) <= 1

\* C9: once main has returned, no process it spawned is still running.
C9_AllExited ==
    status = "returned" => \A s \in Stages : proc[s] # "running"

\* C10: under fair scheduling the cat process, once spawned, eventually
\* terminates (it never stays blocked on the named pipe), whichever
\* processes exit early.
C10_NoPermanentHang == (proc["cat"] = "running") ~> (proc["cat"] = "exited")

====
